---- MODULE Spec2Model ----
(***************************************************************************)
(* Recipe identity and synchronisation engine of CodeACuisine:             *)
(* FirestoreRecipeService (signature computation, create-or-reuse by       *)
(* signature, likes counter) over a Firestore collection, the              *)
(* RecipeDetailComponent that toggles favorites through it, and the        *)
(* ToastService with its auto-hide timer.                                  *)
(*                                                                         *)
(* Strings are sequences of one-character strings, so that lower-casing,   *)
(* trimming, sorting and joining are computed as the code computes them.   *)
(* A JavaScript value that may be a string, null/undefined or an array is  *)
(* a tagged record: [k |-> "str", s |-> chars], [k |-> "null"],            *)
(* [k |-> "arr", a |-> <<values>>].                                        *)
(***************************************************************************)
EXTENDS Integers, Sequences, FiniteSets, TLC

\* ------------------------------------------------------------------ bounds
\* Number of concurrent callers (browser tabs / users) of the service.
NumCallers == 2
\* Work issued in one behaviour: a call counts one, a batch handed to
\* syncGeneratedRecipes counts its length.
MaxWork == 3
\* Toasts shown in one behaviour.
MaxToasts == 5

\* ----------------------------------------------------------------- strings
Str(chars) == [k |-> "str", s |-> chars]
Null == [k |-> "null"]
Arr(items) == [k |-> "arr", a |-> items]

\* The characters in use, in UTF-16 code unit order (the order of
\* Array.prototype.sort without a comparator).
CharOrder ==
  << " ", "0", "1", "2", "3", "4", "5", "6", "7", "8", "9", ";",
     "A", "B", "C", "D", "E", "F", "G", "H", "I", "J", "K", "L", "M",
     "N", "O", "P", "Q", "R", "S", "T", "U", "V", "W", "X", "Y", "Z",
     "a", "b", "c", "d", "e", "f", "g", "h", "i", "j", "k", "l", "m",
     "n", "o", "p", "q", "r", "s", "t", "u", "v", "w", "x", "y", "z",
     "|" >>

Chars == { CharOrder[i] : i \in DOMAIN CharOrder }

CodeOf == [c \in Chars |-> CHOOSE i \in DOMAIN CharOrder : CharOrder[i] = c]

\* The position of a character in the code unit order.
Code(c) == CodeOf[c]

IsUpper(c) == Code(c) >= Code("A") /\ Code(c) <= Code("Z")

LowerOf ==
  [c \in Chars |-> IF IsUpper(c) THEN CharOrder[Code(c) + (Code("a") - Code("A"))] ELSE c]

\* String.prototype.toLowerCase, one character.
LowerChar(c) == LowerOf[c]

ToLowerCase(s) == [i \in 1..Len(s) |-> LowerChar(s[i])]

RECURSIVE TrimStart(_)
TrimStart(s) == IF s # <<>> /\ Head(s) = " " THEN TrimStart(Tail(s)) ELSE s

RECURSIVE TrimEnd(_)
TrimEnd(s) ==
  IF s # <<>> /\ s[Len(s)] = " " THEN TrimEnd(SubSeq(s, 1, Len(s) - 1)) ELSE s

\* Mutant: only leading whitespace is removed.
TrimStartOnly(s) == TrimStart(s)

\* String.prototype.trim.
Trim(s) == TrimEnd(TrimStart(s))

\* String(v) of a string or null/undefined-coalesced-to-'' value.
StringOf(v) == IF v.k = "str" THEN v.s ELSE <<>>

\* FirestoreRecipeService.lower
lower(v) ==
  IF v.k = "arr"
    THEN ToLowerCase(Trim(IF v.a = <<>> THEN <<>> ELSE StringOf(v.a[1])))
  ELSE IF v.k = "null" THEN <<>>
  ELSE ToLowerCase(Trim(v.s))

\* Decimal digits of a natural number, as `${n}` / String(n) prints it.
RECURSIVE NumStr(_)
NumStr(n) ==
  IF n < 10 THEN << CharOrder[Code("0") + n] >>
  ELSE NumStr(n \div 10) \o << CharOrder[Code("0") + (n % 10)] >>

\* Lexicographic comparison by code unit: a < b.
RECURSIVE StrLess(_, _)
StrLess(a, b) ==
  IF b = <<>> THEN FALSE
  ELSE IF a = <<>> THEN TRUE
  ELSE IF Head(a) = Head(b) THEN StrLess(Tail(a), Tail(b))
  ELSE Code(Head(a)) < Code(Head(b))

RECURSIVE InsertSorted(_, _)
InsertSorted(x, sorted) ==
  IF sorted = <<>> THEN << x >>
  ELSE IF StrLess(x, Head(sorted)) THEN << x >> \o sorted
  ELSE << Head(sorted) >> \o InsertSorted(x, Tail(sorted))

\* Mutant: the fragments are joined in source order, unsorted.
SortStringsKeepsOrder(xs) == xs

\* Array.prototype.sort() on an array of strings.
RECURSIVE SortStrings(_)
SortStrings(xs) ==
  IF xs = <<>> THEN <<>> ELSE InsertSorted(Head(xs), SortStrings(Tail(xs)))

\* Array.prototype.join(sep).
RECURSIVE Join(_, _)
Join(parts, sep) ==
  IF parts = <<>> THEN <<>>
  ELSE IF Len(parts) = 1 THEN parts[1]
  ELSE parts[1] \o sep \o Join(Tail(parts), sep)

\* ----------------------------------------------------- preference options
\* StateService.preferencesOptions.times[i].value
TimeOptions ==
  << << "q", "u", "i", "c", "k" >>,
     << "m", "e", "d", "i", "u", "m" >>,
     << "c", "o", "m", "p", "l", "e", "x" >> >>

\* StateService.preferencesOptions.cuisine[i].name
CuisineOptions ==
  << << "g", "e", "r", "m", "a", "n" >>,
     << "i", "t", "a", "l", "i", "a", "n" >>,
     << "i", "n", "d", "i", "a", "n" >>,
     << "j", "a", "p", "a", "n", "e", "s", "e" >>,
     << "g", "o", "u", "r", "m", "e", "t" >>,
     << "f", "u", "s", "i", "o", "n" >> >>

\* StateService.preferencesOptions.dietPreferences
DietOptions ==
  << << "v", "e", "g", "e", "t", "a", "r", "i", "a", "n" >>,
     << "v", "e", "g", "a", "n" >>,
     << "k", "e", "t", "o" >>,
     << "n", "o", " ", "p", "r", "e", "f", "e", "r", "e", "n", "c", "e", "s" >> >>

allowedCuisines == { lower(Str(CuisineOptions[i])) : i \in DOMAIN CuisineOptions }

allowedDietPreferences == { lower(Str(DietOptions[i])) : i \in DOMAIN DietOptions }

allowedCookingTimes == { lower(Str(TimeOptions[i])) : i \in DOMAIN TimeOptions }

Fusion == << "f", "u", "s", "i", "o", "n" >>
NoPreferences == << "n", "o", " ", "p", "r", "e", "f", "e", "r", "e", "n", "c", "e", "s" >>
Quick == << "q", "u", "i", "c", "k" >>

\* options[0]?.name lower-cased, or the literal when the list is empty.
FirstOr(options, literal) ==
  IF options # <<>> /\ lower(Str(options[1])) # <<>>
    THEN lower(Str(options[1])) ELSE literal

\* Mutant: the default is a cuisine that is not among the options.
defaultCuisineUnlisted == << "w", "o", "r", "l", "d" >>

defaultCuisine ==
  IF Fusion \in allowedCuisines THEN Fusion ELSE FirstOr(CuisineOptions, Fusion)

defaultDietPreference ==
  IF NoPreferences \in allowedDietPreferences
    THEN NoPreferences ELSE FirstOr(DietOptions, NoPreferences)

defaultCookingTime ==
  IF Quick \in allowedCookingTimes THEN Quick ELSE FirstOr(TimeOptions, Quick)

\* Mutant: the lower-cased values are kept without the membership test.
canonicalPreferencesKeepsUnknown(input) ==
  [ cuisine |-> lower(input.cuisine), cookingTime |-> lower(input.cookingTime),
    dietPreferences |-> lower(input.dietPreferences) ]

\* FirestoreRecipeService.canonicalPreferences; the result holds plain
\* strings, the input tagged values.
canonicalPreferences(input) ==
  LET cuisine == lower(input.cuisine)
      cookingTime == lower(input.cookingTime)
      diet == lower(input.dietPreferences)
  IN  [ cuisine |-> IF cuisine \in allowedCuisines THEN cuisine ELSE defaultCuisine,
        cookingTime |->
          IF cookingTime \in allowedCookingTimes THEN cookingTime ELSE defaultCookingTime,
        dietPreferences |->
          IF diet \in allowedDietPreferences THEN diet ELSE defaultDietPreference ]

\* A canonical preference triple as the tagged values a recipe object holds.
AsInput(prefs) ==
  [ cuisine |-> Str(prefs.cuisine), cookingTime |-> Str(prefs.cookingTime),
    dietPreferences |-> Str(prefs.dietPreferences) ]

\* ---------------------------------------------------------------- signature
Num(n) == [k |-> "num", n |-> n]
Unit(abbreviation, name) == [k |-> "unit", abbreviation |-> abbreviation, name |-> name]

\* ingredient.unit?.abbreviation || ingredient.unit?.name || ''
UnitText(unit) ==
  IF unit.k = "null" THEN <<>>
  ELSE IF unit.abbreviation # <<>> THEN unit.abbreviation
  ELSE unit.name

\* FirestoreRecipeService.normalizeIngredient: `${name}|${size}|${unit}`
normalizeIngredient(ingredient) ==
  LET name == lower(ingredient.ingredient)
      size == IF ingredient.servingSize.k = "null" THEN 0 ELSE ingredient.servingSize.n
      unit == lower(Str(UnitText(ingredient.unit)))
  IN  name \o << "|" >> \o NumStr(size) \o << "|" >> \o unit

\* FirestoreRecipeService.buildIngredientsKey
buildIngredientsKey(recipe) ==
  LET all == recipe.ingredients.yourIngredients \o recipe.ingredients.extraIngredients
      parts == [i \in 1..Len(all) |-> normalizeIngredient(all[i])]
  IN  Join(SortStrings(parts), << ";" >>)

\* Mutant: the likes counter is one more part of the signature.
buildRecipeSignatureWithLikes(recipe) ==
  LET prefs == canonicalPreferences(recipe.preferences)
      title == lower(recipe.title)
      cooks == NumStr(IF recipe.cooksAmount.k = "null" THEN 0 ELSE recipe.cooksAmount.n)
      likes == NumStr(IF recipe.likes.k = "null" THEN 0 ELSE recipe.likes.n)
      ingredientsKey == buildIngredientsKey(recipe)
  IN  Join(<< title, prefs.cuisine, prefs.cookingTime, prefs.dietPreferences,
              cooks, ingredientsKey, likes >>, << "|", "|" >>)

\* FirestoreRecipeService.buildRecipeSignature
buildRecipeSignature(recipe) ==
  LET prefs == canonicalPreferences(recipe.preferences)
      title == lower(recipe.title)
      cooks == NumStr(IF recipe.cooksAmount.k = "null" THEN 0 ELSE recipe.cooksAmount.n)
      ingredientsKey == buildIngredientsKey(recipe)
  IN  Join(<< title, prefs.cuisine, prefs.cookingTime, prefs.dietPreferences,
              cooks, ingredientsKey >>, << "|", "|" >>)

\* ------------------------------------------------------------ recipe objects
\* GeneratedRecipe objects as the generator hands them over: no id, no
\* recipeSignature. Recipes 1 and 2 are content-duplicates written with
\* different letter case, whitespace and ingredient order; recipe 3 differs
\* and carries a likes value and a cuisine outside the allowed set.
Tomato == [ ingredient |-> Str(<< "t", "o", "m", "a", "t", "o" >>), servingSize |-> Num(200),
            unit |-> Unit(<< "g" >>, << "g", "r", "a", "m" >>) ]
Pasta == [ ingredient |-> Str(<< "P", "a", "s", "t", "a" >>), servingSize |-> Num(150),
           unit |-> Unit(<< "g" >>, << "g", "r", "a", "m" >>) ]
Rice == [ ingredient |-> Str(<< "r", "i", "c", "e" >>), servingSize |-> Null, unit |-> Null ]

InitialRecipes ==
  << [ id |-> Null, recipeSignature |-> Null, likes |-> Null,
       title |-> Str(<< "P", "a", "s", "t", "a" >>),
       preferences |-> [ cuisine |-> Str(<< "i", "t", "a", "l", "i", "a", "n" >>), cookingTime |-> Str(<< "q", "u", "i", "c", "k" >>),
                         dietPreferences |-> Str(<< "v", "e", "g", "a", "n" >>) ],
       cooksAmount |-> Num(2),
       ingredients |-> [ yourIngredients |-> << Tomato >>, extraIngredients |-> << Pasta >> ] ],
     [ id |-> Null, recipeSignature |-> Null, likes |-> Null,
       title |-> Str(<< " ", "P", "A", "S", "T", "A", " " >>),
       preferences |-> [ cuisine |-> Str(<< "I", "t", "a", "l", "i", "a", "n" >>), cookingTime |-> Str(<< "Q", "U", "I", "C", "K" >>),
                         dietPreferences |-> Str(<< "v", "e", "g", "a", "n", " " >>) ],
       cooksAmount |-> Num(2),
       ingredients |-> [ yourIngredients |-> << Pasta, Tomato >>, extraIngredients |-> << >> ] ],
     [ id |-> Null, recipeSignature |-> Null, likes |-> Num(2),
       title |-> Str(<< "C", "u", "r", "r", "y" >>),
       preferences |-> [ cuisine |-> Str(<< "F", "R", "E", "N", "C", "H" >>), cookingTime |-> Null,
                         dietPreferences |-> Arr(<< Str(<< "K", "e", "t", "o" >>) >>) ],
       cooksAmount |-> Num(4),
       ingredients |-> [ yourIngredients |-> << Rice >>, extraIngredients |-> << >> ] ] >>

Objs == DOMAIN InitialRecipes

\* --------------------------------------------------------------------- state
VARIABLES
  recipes,     \* the in-memory GeneratedRecipe objects the callers hold
  docs,        \* the Firestore collection 'recipes', in document-id order
  nextId,      \* the next fresh document id (ids 1..nextId-1 are in use)
  allRecipes,  \* StateService.allRecipes
  call,        \* per caller: the service call in flight, if any
  last,        \* the call that completed last, with what it returned
  started,     \* work issued so far (calls, batch items)
  ledger,      \* history: per document id, initial likes and deltas applied
  view,        \* the RecipeDetailComponent and the browser's favorites map
  toast        \* the ToastService and the timers it has pending

vars == << recipes, docs, nextId, allRecipes, call, last, started, ledger, view, toast >>

Callers == 1..NumCallers

Max(a, b) == IF a >= b THEN a ELSE b

Id(n) == [k |-> "id", v |-> n]

\* A caller with no call in flight. before, after, lookups, creates and
\* increments are history: the collection when the call began and when it
\* completed, and the store requests the call has had answered.
NoCall ==
  [ pc |-> "idle", op |-> "none", origin |-> "none", batch |-> << >>, k |-> 0,
    options |-> Null,
    isFavorite |-> FALSE, arg |-> Null, signature |-> << >>, existing |-> Null,
    payload |-> Null, next |-> 0, out |-> << >>, result |-> Null,
    before |-> << >>, after |-> << >>, lookups |-> 0, creates |-> 0, increments |-> << >> ]

\* No recipe detail view is open: selectedRecipe is null, isFavorite is
\* false and the favorites map in localStorage is empty. base is the heap
\* object selectedRecipe is (0 when it is a copy no call has been handed),
\* sent is history: the like deltas the view's completed toggles have sent.
NoView ==
  [ selectedRecipe |-> Null, base |-> 0, isFavorite |-> FALSE, favorites |-> {},
    sent |-> << >> ]

\* The ToastService after construction: no toast, no timer. timers is the
\* set of timeouts pending in the event loop; shown and fired are history:
\* the number of toasts shown and the last timer that ran, with the toast it
\* found.
NoToast ==
  [ toastSubject |-> Null, hideTimeoutId |-> Null, timers |-> {}, shown |-> 0,
    fired |-> Null ]

Init ==
  /\ recipes = InitialRecipes
  /\ docs = << >>
  /\ nextId = 1
  /\ allRecipes = << >>
  /\ call = [c \in Callers |-> NoCall]
  /\ last = NoCall
  /\ started = 0
  /\ ledger = << >>
  /\ view = NoView
  /\ toast = NoToast

\* No call is between its first store request and its completion.
Quiet == \A c \in Callers : call[c].pc = "idle"

CanStart(c, work) == call[c].pc = "idle" /\ started + work <= MaxWork

\* Timestamp.now(): logical time, the number of documents created so far.
now == nextId - 1

\* ------------------------------------------------------- service, pure parts
\* FirestoreRecipeService.getOrCreateSignature: the value returned (and
\* cached on the recipe object by the callers below).
getOrCreateSignature(recipe) ==
  IF recipe.recipeSignature.k = "str" /\ recipe.recipeSignature.s # << >>
    THEN recipe.recipeSignature.s
    ELSE buildRecipeSignature(recipe)

WithSignature(rs, o) ==
  [rs EXCEPT ![o].recipeSignature = Str(getOrCreateSignature(rs[o]))]

\* Mutant: the query names a field no document carries, so it never hits.
findBySignatureOnMissingField(ds, signature) ==
  LET hits == SelectSeq(ds, LAMBDA d : FALSE)
  IN  IF hits = << >> THEN Null ELSE [k |-> "doc", v |-> Head(hits)]

\* FirestoreRecipeService.findBySignature on the collection ds: the first
\* matching document in document-id order, with its id.
findBySignature(ds, signature) ==
  LET hits == SelectSeq(ds, LAMBDA d : d.recipeSignature = signature)
  IN  IF hits = << >> THEN Null ELSE [k |-> "doc", v |-> Head(hits)]

Opts(isSeed) == [k |-> "opts", isSeed |-> isSeed]
Bool(b) == [k |-> "bool", b |-> b]

\* FirestoreRecipeService.buildRecipePayload (the fields the properties read;
\* cookingTimeText, nutritionalInformation and directions are copied
\* through unchanged by the code and are left out).
buildRecipePayload(recipe, signature, likes, options, createdAt) ==
  [ title |-> recipe.title,
    cooksAmount |-> recipe.cooksAmount,
    preferences |-> canonicalPreferences(recipe.preferences),
    ingredients |-> recipe.ingredients,
    recipeSignature |-> signature,
    likes |-> likes,
    isSeedRecipe |-> IF options.k = "null" \/ options.isSeed.k = "null"
                       THEN FALSE ELSE options.isSeed.b,
    createdAt |-> createdAt ]

\* Mutant: a new record starts at 0 likes whatever the recipe carries.
LikesAlwaysZero(likes) == 0

\* recipe.likes ?? 0
LikesOrZero(likes) == IF likes.k = "null" THEN 0 ELSE likes.n

\* existing.likes ?? 0 of a document read from the store.
existingLikes(existing) == IF "likes" \in DOMAIN existing THEN existing.likes ELSE 0

\* Mutant: the spread comes last, so the incoming recipe's id wins.
mergeKeepsIncomingId(recipe, existing, signature) ==
  [recipe EXCEPT !.recipeSignature = Str(signature), !.likes = Num(existing.likes)]

\* Mutant: the spread comes last, so the incoming recipe's likes win.
mergeKeepsIncomingLikes(recipe, existing, signature) ==
  [recipe EXCEPT !.id = Id(existing.id), !.recipeSignature = Str(signature)]

\* FirestoreRecipeService.mergeExistingRecipe
mergeExistingRecipe(recipe, existing, signature) ==
  [recipe EXCEPT !.id = Id(existing.id), !.recipeSignature = Str(signature),
                 !.likes = Num(existingLikes(existing))]

\* Mutant: the new document's id is not attached to the returned recipe.
CreatedRecipeWithoutId(recipe, id, signature, likes) ==
  [recipe EXCEPT !.recipeSignature = Str(signature), !.likes = Num(likes)]

\* The object ensureRecipeInCookbook returns after a create.
CreatedRecipe(recipe, id, signature, likes) ==
  [recipe EXCEPT !.id = Id(id), !.recipeSignature = Str(signature), !.likes = Num(likes)]

\* Mutant: every toggle counts as a like.
likesDeltaAlwaysUp(isFavorite) == 1

\* FirestoreRecipeService.likesDelta
likesDelta(isFavorite) == IF isFavorite THEN 1 ELSE -1

\* Mutant: the advisory value is the likes read, the delta left out.
computeNewLikesWithoutDelta(currentLikes, delta) == Max(currentLikes, 0)

\* Mutant: the advisory value is not clamped at 0.
computeNewLikesUnclamped(currentLikes, delta) == currentLikes + delta

\* The advisory value of FirestoreRecipeService.updateExistingLikes.
computeNewLikes(currentLikes, delta) == Max(currentLikes + delta, 0)

\* Mutant: a record created by a toggle starts at 0 likes.
initialLikesZero(isFavorite) == 0

\* The likes createLikedRecipe stores and returns.
initialLikes(isFavorite) == IF isFavorite THEN 1 ELSE 0

\* Mutant: the increment is applied twice.
updateDocTwice(doc, currentLikes, delta) == [doc EXCEPT !.likes = @ + delta + delta]

\* Mutant: the advisory value is written back instead of an increment.
updateDocWritesBack(doc, currentLikes, delta) ==
  [doc EXCEPT !.likes = IF currentLikes + delta >= 0 THEN currentLikes + delta ELSE 0]

\* Mutant: the update also stamps the document, overwriting createdAt.
updateDocTouches(doc, currentLikes, delta) ==
  [doc EXCEPT !.likes = @ + delta, !.createdAt = @ + 1]

\* updateDoc(ref, { likes: increment(delta) }) as the store applies it to the
\* document: the delta is added to the stored likes, whatever likes the
\* caller has read (currentLikes); a document without likes gets the delta.
updateDocLikes(doc, currentLikes, delta) ==
  [ f \in DOMAIN doc \cup { "likes" } |->
      IF f = "likes" THEN (IF "likes" \in DOMAIN doc THEN doc.likes ELSE 0) + delta
                     ELSE doc[f] ]

Insert(seq, pos, x) == SubSeq(seq, 1, pos - 1) \o << x >> \o SubSeq(seq, pos, Len(seq))

\* Mutant: a conditional write, create only if the signature is absent.
addDocIfAbsent(ds, pos, doc) ==
  IF \E i \in DOMAIN ds : ds[i].recipeSignature = doc.recipeSignature
    THEN ds ELSE Insert(ds, pos, doc)

\* Mutant: the document is written under an id in use and replaces the
\* document at pos.
addDocOverwrites(ds, pos, doc) ==
  IF pos <= Len(ds) THEN [ds EXCEPT ![pos] = doc] ELSE Append(ds, doc)

\* Mutant: a transactional upsert: when a document with the signature exists
\* by then, the new likes are added to it and nothing is created.
addDocUpserting(ds, pos, doc) ==
  IF \E i \in DOMAIN ds : ds[i].recipeSignature = doc.recipeSignature
    THEN LET first == CHOOSE i \in DOMAIN ds :
                        /\ ds[i].recipeSignature = doc.recipeSignature
                        /\ \A j \in 1..(i - 1) : ds[j].recipeSignature # doc.recipeSignature
         IN  [ds EXCEPT ![first].likes = @ + doc.likes]
    ELSE Insert(ds, pos, doc)

\* Mutant: the create is buffered in a write batch and never committed.
addDocBuffered(ds, pos, doc) == ds

\* addDoc(collection, payload) as the store applies it: a new document
\* under a fresh id, at the place pos its id takes in document-id order.
addDoc(ds, pos, doc) == Insert(ds, pos, doc)

\* { id: docSnap.id, ...docSnap.data() }: a stored document as the recipe
\* object the service hands out.
RecipeOfDoc(d) ==
  [ id |-> Id(d.id),
    recipeSignature |-> Str(d.recipeSignature),
    likes |-> IF "likes" \in DOMAIN d THEN Num(d.likes) ELSE Null,
    title |-> d.title,
    preferences |-> AsInput(d.preferences),
    cooksAmount |-> d.cooksAmount,
    ingredients |-> d.ingredients,
    isSeedRecipe |-> d.isSeedRecipe,
    createdAt |-> d.createdAt ]

\* FirestoreRecipeService.canonicalizeAndStore / canonicalizeOnly, the list.
canonicalizeOnly(list) ==
  [i \in DOMAIN list |->
     [list[i] EXCEPT !.preferences = canonicalPreferences(AsInput(@))]]

\* ------------------------------------------------------------------- inputs
OptionValues == { Null, Opts(Bool(TRUE)) }

Batches == UNION { [1..n -> Objs] : n \in 0..MaxWork }

CuisineArgs == { Null, Str(<< " ", "F", "u", "s", "i", "o", "n" >>) }

\* ------------------------------------------------------------------ actions
\* The first store request of ensureRecipeInCookbook(recipes[o], options):
\* the signature is read or cached, then the lookup is issued.
AwaitLookup(st, rs, o) ==
  [st EXCEPT !.pc = "lookup", !.signature = getOrCreateSignature(rs[o]),
             !.existing = Null, !.payload = Null]

\* Mutant: the loop collects with unshift, the newest result first.
ResolvedUnshift(st, rs, res) ==
  LET out == << res >> \o st.out
  IN  IF st.op = "sync" /\ st.k < Len(st.batch)
        THEN AwaitLookup([st EXCEPT !.out = out, !.k = st.k + 1], rs, st.batch[st.k + 1])
        ELSE [st EXCEPT !.pc = "done", !.out = out,
                        !.result = IF st.op = "sync" THEN [k |-> "list", v |-> out]
                                                     ELSE [k |-> "recipe", v |-> res]]

\* ensureRecipeInCookbook has resolved to res for item k of the call: the
\* loop of syncGeneratedRecipes pushes it and goes on with the next item, or
\* the call returns.
Resolved(st, rs, res) ==
  LET out == Append(st.out, res)
  IN  IF st.op = "sync" /\ st.k < Len(st.batch)
        THEN AwaitLookup([st EXCEPT !.out = out, !.k = st.k + 1], rs, st.batch[st.k + 1])
        ELSE [st EXCEPT !.pc = "done", !.out = out,
                        !.result = IF st.op = "sync" THEN [k |-> "list", v |-> out]
                                                     ELSE [k |-> "recipe", v |-> res]]

ResolvedRecipes(st, rs) ==
  IF st.op = "sync" /\ st.k < Len(st.batch)
    THEN WithSignature(rs, st.batch[st.k + 1]) ELSE rs

\* Caller c's call moves to st, the collection being ds by then: a call that
\* has returned or failed leaves the caller idle and is kept as the last
\* completed call.
\* Mutant: an unfavorite leaves the signature's key in the map.
updateFavoritesMapKeepsKey(data, signature, isFavorite) == data \cup { signature }

\* RecipeDetailComponent.updateFavoritesMap on the map of localStorage key
\* 'cac_favorites', held as the set of signatures mapped to true.
updateFavoritesMap(data, signature, isFavorite) ==
  IF isFavorite THEN data \cup { signature } ELSE data \ { signature }

\* RecipeDetailComponent.loadFavoriteFromStorage
loadFavoriteFromStorage(data, signature) == signature \in data

\* RecipeDetailComponent.applyFavoriteState: isFavorite, the likes of a copy
\* of selectedRecipe, and the favorites map.
applyFavoriteState(v, isFavorite, likes) ==
  IF v.selectedRecipe = Null \/ v.selectedRecipe.recipeSignature \in { Null, Str(<< >>) }
    THEN v
    ELSE [v EXCEPT !.isFavorite = isFavorite,
                   !.selectedRecipe = [@ EXCEPT !.likes = Num(likes)],
                   !.base = 0,
                   !.favorites = updateFavoritesMap(@, v.selectedRecipe.recipeSignature.s,
                                                    isFavorite)]

\* RecipeDetailComponent.applyBackendRecipeUpdate: a copy of selectedRecipe
\* with the likes, signature and id of the recipe the backend returned.
applyBackendRecipeUpdate(v, updated) ==
  IF v.selectedRecipe = Null
    THEN v
    ELSE [v EXCEPT !.selectedRecipe =
                      [@ EXCEPT !.likes = Num(IF updated.likes = Null THEN 0
                                              ELSE updated.likes.n),
                                !.recipeSignature = updated.recipeSignature,
                                !.id = IF updated.id = Null THEN @ ELSE updated.id],
                   !.base = 0]

\* The like delta a completed updateLikesForRecipe call has sent: the
\* increment, or the likes of the document it created.
SentBy(st) == IF st.increments # << >> THEN st.increments[1].delta ELSE st.result.n

\* The component's code after the await, run when call st returns:
\* onToggleFavorite applies the favorite state (createLikedRecipe has set
\* the id on the object it was handed), syncLikesFromBackend applies the
\* backend recipe; a rejection is caught and logged.
Continuation(v, st, id) ==
  IF st.pc = "done" /\ st.origin = "onToggleFavorite"
    THEN LET w == IF st.creates > 0 /\ v.base = st.batch[1]
                    THEN [v EXCEPT !.selectedRecipe.id = Id(id)] ELSE v
         IN  [applyFavoriteState(w, st.isFavorite, st.result.n)
                EXCEPT !.sent = Append(@, SentBy(st))]
  ELSE IF st.pc = "done" /\ st.origin = "syncLikesFromBackend"
    THEN applyBackendRecipeUpdate(v, st.result.v)
  ELSE v

Move(c, st, ds) ==
  /\ IF st.pc \in {"done", "failed"}
       THEN call' = [call EXCEPT ![c] = NoCall] /\ last' = [st EXCEPT !.after = ds]
       ELSE call' = [call EXCEPT ![c] = st] /\ last' = last
  /\ view' = Continuation(view, st, nextId)
  /\ toast' = toast

\* ensureRecipeInCookbook(recipe, options), up to the lookup's await.
EnsureRecipeInCookbook(c) ==
  \E o \in Objs, options \in OptionValues :
    /\ CanStart(c, 1)
    /\ recipes' = WithSignature(recipes, o)
    /\ Move(c, AwaitLookup([NoCall EXCEPT !.op = "ensure", !.batch = << o >>, !.k = 1,
                                          !.options = options, !.before = docs],
                           recipes, o), docs)
    /\ started' = started + 1
    /\ UNCHANGED << docs, nextId, allRecipes, ledger >>

\* syncGeneratedRecipes(recipes), up to the first item's lookup (an empty
\* list returns at once).
SyncGeneratedRecipes(c) ==
  \E batch \in Batches :
    /\ CanStart(c, Max(1, Len(batch)))
    /\ LET st == [NoCall EXCEPT !.op = "sync", !.batch = batch, !.k = 1,
                                !.options = Opts(Bool(FALSE)), !.before = docs]
       IN  IF batch = << >>
             THEN /\ Move(c, [st EXCEPT !.pc = "done", !.k = 0,
                                        !.result = [k |-> "list", v |-> << >>]], docs)
                  /\ recipes' = recipes
             ELSE /\ Move(c, AwaitLookup(st, recipes, batch[1]), docs)
                  /\ recipes' = WithSignature(recipes, batch[1])
    /\ started' = started + Max(1, Len(batch))
    /\ UNCHANGED << docs, nextId, allRecipes, ledger >>

\* updateLikesForRecipe(recipe, isFavorite), up to the lookup's await.
UpdateLikesForRecipe(c) ==
  \E o \in Objs, isFavorite \in BOOLEAN :
    /\ CanStart(c, 1)
    /\ recipes' = WithSignature(recipes, o)
    /\ Move(c, AwaitLookup([NoCall EXCEPT !.op = "update", !.batch = << o >>, !.k = 1,
                                          !.isFavorite = isFavorite, !.before = docs],
                           recipes, o), docs)
    /\ started' = started + 1
    /\ UNCHANGED << docs, nextId, allRecipes, ledger >>

\* The payload a call builds when its lookup found nothing: createLikedRecipe
\* for updateLikesForRecipe, ensureRecipeInCookbook's otherwise.
NewPayload(st, recipe) ==
  IF st.op = "update"
    THEN buildRecipePayload(recipe, st.signature, initialLikes(st.isFavorite),
                            Opts(Bool(FALSE)), now)
    ELSE buildRecipePayload(recipe, st.signature, LikesOrZero(recipe.likes),
                            st.options, now)

\* The store answers the lookup of findBySignature and the call runs on to
\* its next await or to its return.
FindBySignature(c) ==
  /\ call[c].pc = "lookup"
  /\ LET st == [call[c] EXCEPT !.lookups = @ + 1]
         recipe == recipes[st.batch[st.k]]
         existing == findBySignature(docs, st.signature)
     IN  IF existing.k = "null"
           THEN /\ Move(c, [st EXCEPT !.pc = "create",
                                      !.payload = [k |-> "payload",
                                                   v |-> NewPayload(st, recipe)]], docs)
                /\ recipes' = recipes
           ELSE IF st.op = "update"
             THEN /\ Move(c, [st EXCEPT !.pc = "increment", !.existing = existing,
                                        !.next = computeNewLikes(existingLikes(existing.v),
                                                                 likesDelta(st.isFavorite))], docs)
                  /\ recipes' = recipes
             ELSE /\ Move(c, Resolved([st EXCEPT !.existing = existing], recipes,
                                      mergeExistingRecipe(recipe, existing.v, st.signature)), docs)
                  /\ recipes' = ResolvedRecipes(st, recipes)
  /\ UNCHANGED << docs, nextId, allRecipes, started, ledger >>

\* The store creates the document of createRecipeDoc (addDoc) under a fresh
\* random id, which may sort anywhere among the existing ids, and the call
\* runs on.
AddDoc(c) ==
  /\ call[c].pc = "create"
  /\ \E pos \in 1..(Len(docs) + 1) :
       LET st == [call[c] EXCEPT !.creates = @ + 1]
           o == st.batch[st.k]
           payload == st.payload.v
           doc == [id |-> nextId] @@ payload
       IN  /\ docs' = addDoc(docs, pos, doc)
           /\ nextId' = nextId + 1
           /\ ledger' = Append(ledger, [initial |-> payload.likes, delta |-> 0])
           /\ IF st.op = "update"
                THEN /\ recipes' = [recipes EXCEPT ![o].id = Id(nextId)]
                     /\ Move(c, [st EXCEPT !.pc = "done",
                                           !.result = [k |-> "likes", n |-> payload.likes]], docs')
                ELSE /\ Move(c, Resolved(st, recipes,
                                  CreatedRecipe(recipes[o], nextId, st.signature,
                                                payload.likes)), docs')
                     /\ recipes' = ResolvedRecipes(st, recipes)
  /\ UNCHANGED << allRecipes, started >>

\* updateExistingLikes: the store applies updateDoc's increment(delta) to the
\* document the lookup returned; the call returns the advisory value.
UpdateDoc(c) ==
  /\ call[c].pc = "increment"
  /\ LET st == call[c]
         id == st.existing.v.id
         delta == likesDelta(st.isFavorite)
     IN  /\ docs' = [i \in DOMAIN docs |->
                      IF docs[i].id = id
                        THEN updateDocLikes(docs[i], existingLikes(st.existing.v), delta)
                        ELSE docs[i]]
         /\ ledger' = [ledger EXCEPT ![id].delta = @ + delta]
         /\ Move(c, [st EXCEPT !.pc = "done", !.result = [k |-> "likes", n |-> st.next],
                               !.increments = Append(@, [id |-> id, delta |-> delta])], docs')
  /\ UNCHANGED << recipes, nextId, allRecipes, started >>

\* getRecipeById(id), up to getDoc's await.
GetRecipeById(c) ==
  \E id \in 1..nextId :
    /\ CanStart(c, 1)
    /\ Move(c, [NoCall EXCEPT !.pc = "getDoc", !.op = "getById", !.arg = Id(id),
                              !.before = docs], docs)
    /\ started' = started + 1
    /\ UNCHANGED << recipes, docs, nextId, allRecipes, ledger >>

\* The store answers getDoc; getRecipeById returns the document or null.
GetDoc(c) ==
  /\ call[c].pc = "getDoc"
  /\ LET hits == SelectSeq(docs, LAMBDA d : d.id = call[c].arg.v)
     IN  Move(c, [call[c] EXCEPT !.pc = "done",
                                 !.result = IF hits = << >> THEN Null
                                            ELSE [k |-> "doc", v |-> Head(hits)]], docs)
  /\ UNCHANGED << recipes, docs, nextId, allRecipes, started, ledger >>

\* loadCookbook(cuisine), up to getDocs' await.
LoadCookbook(c) ==
  \E cuisine \in CuisineArgs :
    /\ CanStart(c, 1)
    /\ Move(c, [NoCall EXCEPT !.pc = "getDocs", !.op = "loadCookbook", !.arg = cuisine,
                              !.before = docs], docs)
    /\ started' = started + 1
    /\ UNCHANGED << recipes, docs, nextId, allRecipes, ledger >>

\* The store answers getDocs; loadCookbook canonicalises the documents,
\* writes them into StateService.allRecipes and emits them.
GetDocs(c) ==
  /\ call[c].pc = "getDocs"
  /\ LET cuisineKey == IF call[c].arg.k = "null" THEN << >> ELSE lower(call[c].arg)
         found == IF cuisineKey = << >> THEN docs
                  ELSE SelectSeq(docs, LAMBDA d : d.preferences.cuisine = cuisineKey)
         cleaned == canonicalizeOnly(found)
     IN  /\ allRecipes' = cleaned
         /\ Move(c, [call[c] EXCEPT !.pc = "done",
                                    !.result = [k |-> "list", v |-> cleaned]], docs)
  /\ UNCHANGED << recipes, docs, nextId, started, ledger >>

\* Mutant: the rejection is caught and the call returns the value it has
\* computed so far.
StoreFailsSwallowed(c) ==
  /\ call[c].pc \in {"lookup", "create", "increment", "getDoc", "getDocs"}
  /\ Move(c, [call[c] EXCEPT !.pc = "done",
                             !.result = [k |-> "likes", n |-> call[c].next]], docs)
  /\ UNCHANGED << recipes, docs, nextId, allRecipes, started, ledger >>

\* A store request fails (network, permission): the awaiting call rejects.
StoreFails(c) ==
  /\ call[c].pc \in {"lookup", "create", "increment", "getDoc", "getDocs"}
  /\ Move(c, [call[c] EXCEPT !.pc = "failed"], docs)
  /\ UNCHANGED << recipes, docs, nextId, allRecipes, started, ledger >>

Begin(c) ==
  \/ EnsureRecipeInCookbook(c)
  \/ SyncGeneratedRecipes(c)
  \/ UpdateLikesForRecipe(c)
  \/ GetRecipeById(c)
  \/ LoadCookbook(c)

Step(c) ==
  \/ FindBySignature(c)
  \/ AddDoc(c)
  \/ UpdateDoc(c)
  \/ GetDoc(c)
  \/ GetDocs(c)
  \/ StoreFails(c)

\* Any callers, any interleaving of their store requests.
Next == \E c \in Callers : Begin(c) \/ Step(c)

Spec == Init /\ [][Next]_vars

\* Callers that never overlap: a call begins only when no call is in flight.
NextSeq ==
  \E c \in Callers :
    \/ Quiet /\ EnsureRecipeInCookbook(c)
    \/ Quiet /\ SyncGeneratedRecipes(c)
    \/ Quiet /\ UpdateLikesForRecipe(c)
    \/ Quiet /\ GetRecipeById(c)
    \/ Quiet /\ LoadCookbook(c)
    \/ Step(c)

SpecSeq == Init /\ [][NextSeq]_vars

\* A document that was not written by createRecipeDoc and has no likes
\* field (likes is optional in GeneratedRecipe); it carries the content and
\* signature of recipe 1.
LegacyDoc ==
  [ id |-> 1,
    title |-> InitialRecipes[1].title,
    cooksAmount |-> InitialRecipes[1].cooksAmount,
    preferences |-> canonicalPreferences(InitialRecipes[1].preferences),
    ingredients |-> InitialRecipes[1].ingredients,
    recipeSignature |-> buildRecipeSignature(InitialRecipes[1]),
    isSeedRecipe |-> TRUE,
    createdAt |-> 0 ]

\* The service starts on a collection that holds such a document.
InitLegacy ==
  /\ recipes = InitialRecipes
  /\ docs = << LegacyDoc >>
  /\ nextId = 2
  /\ allRecipes = << >>
  /\ call = [c \in Callers |-> NoCall]
  /\ last = NoCall
  /\ started = 0
  /\ ledger = << [initial |-> 0, delta |-> 0] >>
  /\ view = NoView
  /\ toast = NoToast

SpecLegacy == InitLegacy /\ [][NextSeq]_vars

\* --------------------------------------------- signature of recipe objects
\* Recipe objects whose signature is computed: titles, preference triples,
\* ingredient lists and cooksAmount in several writings, as the generator
\* hands them over (no id, no likes) or as read back from the store (with
\* id, likes, createdAt, isSeedRecipe).
TitleInputs == { InitialRecipes[o].title : o \in Objs }

PreferenceInputs ==
  { InitialRecipes[o].preferences : o \in Objs }
    \cup { [ cuisine |-> Str(<< >>), cookingTime |-> Str(TimeOptions[2]),
             dietPreferences |-> Arr(<< >>) ],
           [ cuisine |-> Str(Fusion), cookingTime |-> Str(Quick),
             dietPreferences |-> Str(DietOptions[3]) ] }

IngredientInputs ==
  { [ yourIngredients |-> << Tomato >>, extraIngredients |-> << Pasta >> ],
    [ yourIngredients |-> << Pasta, Tomato >>, extraIngredients |-> << >> ],
    [ yourIngredients |-> << >>, extraIngredients |-> << Tomato, Pasta >> ],
    [ yourIngredients |-> << Rice >>, extraIngredients |-> << >> ] }

CooksAmountInputs == { Num(2), Null }

StoredFieldInputs ==
  { [ id |-> Null, likes |-> Null ],
    [ id |-> Id(1), likes |-> Num(5), createdAt |-> 1, isSeedRecipe |-> TRUE ] }

RecipeInputs ==
  { stored @@ [ recipeSignature |-> Null, title |-> title, preferences |-> preferences,
                cooksAmount |-> cooksAmount, ingredients |-> ingredients ] :
      stored \in StoredFieldInputs, title \in TitleInputs,
      preferences \in PreferenceInputs, cooksAmount \in CooksAmountInputs,
      ingredients \in IngredientInputs }

\* Two recipe objects, any two of the inputs; the store is not involved.
InitSignature ==
  /\ recipes \in [{1, 2} -> RecipeInputs]
  /\ docs = << >>
  /\ nextId = 1
  /\ allRecipes = << >>
  /\ call = [c \in Callers |-> NoCall]
  /\ last = NoCall
  /\ started = 0
  /\ ledger = << >>
  /\ view = NoView
  /\ toast = NoToast

\* getOrCreateSignature(recipes[o]) on an object that carries no signature:
\* buildRecipeSignature computes it and it is cached on the object.
GetOrCreateSignature(o) ==
  /\ recipes[o].recipeSignature = Null
  /\ recipes' = WithSignature(recipes, o)
  /\ UNCHANGED << docs, nextId, allRecipes, call, last, started, ledger, view, toast >>

NextSignature == \E o \in DOMAIN recipes : GetOrCreateSignature(o)

SpecSignature == InitSignature /\ [][NextSignature]_vars

\* ------------------------------------------------ canonical preferences
\* Values an axis of Partial<RecipePreferences> may hold: every option as
\* configured, options in other writings, values outside the options, the
\* empty string, null/undefined and arrays.
CuisineInputs ==
  { Str(CuisineOptions[i]) : i \in DOMAIN CuisineOptions }
    \cup { InitialRecipes[o].preferences.cuisine : o \in Objs }
    \cup { Null, Str(<< >>), Str(<< " ", "F", "u", "s", "i", "o", "n" >>),
           Arr(<< Str(<< "G", "e", "r", "m", "a", "n" >>) >>) }

CookingTimeInputs ==
  { Str(TimeOptions[i]) : i \in DOMAIN TimeOptions }
    \cup { InitialRecipes[o].preferences.cookingTime : o \in Objs }
    \cup { Str(<< "s", "l", "o", "w" >>), Str(<< " ", "M", "e", "d", "i", "u", "m", " " >>) }

DietInputs ==
  { Str(DietOptions[i]) : i \in DOMAIN DietOptions }
    \cup { InitialRecipes[o].preferences.dietPreferences : o \in Objs }
    \cup { Null, Arr(<< >>), Str(<< "p", "a", "l", "e", "o" >>),
           Str(<< "N", "o", " ", "P", "r", "e", "f", "e", "r", "e", "n", "c", "e", "s" >>) }

\* One recipe object with any preferences; the store is not involved.
InitPreferences ==
  /\ recipes \in { << [InitialRecipes[1] EXCEPT !.preferences = p] >> :
                     p \in [ cuisine : CuisineInputs, cookingTime : CookingTimeInputs,
                             dietPreferences : DietInputs ] }
  /\ docs = << >>
  /\ nextId = 1
  /\ allRecipes = << >>
  /\ call = [c \in Callers |-> NoCall]
  /\ last = NoCall
  /\ started = 0
  /\ ledger = << >>
  /\ view = NoView
  /\ toast = NoToast

\* canonicalPreferences(recipes[o].preferences) is called and returns.
CanonicalPreferences(o) ==
  /\ last' = [NoCall EXCEPT !.pc = "done", !.op = "canonicalPreferences",
                            !.batch = << o >>,
                            !.result = [k |-> "preferences",
                                        v |-> canonicalPreferences(recipes[o].preferences)]]
  /\ UNCHANGED << recipes, docs, nextId, allRecipes, call, started, ledger, view, toast >>

NextPreferences == \E o \in DOMAIN recipes : CanonicalPreferences(o)

SpecPreferences == InitPreferences /\ [][NextPreferences]_vars

\* ------------------------------------------------- recipe detail view
\* The earlier FirestoreRecipeService (firebase-recipe.service.ts), which
\* wrote documents into the same collection: the signature is built from
\* the preferences as given, and the payload stores them as given.
safeLower(value) ==
  IF value.k = "arr"
    THEN ToLowerCase(Trim(IF value.a = <<>> THEN <<>> ELSE StringOf(value.a[1])))
  ELSE IF value.k = "null" THEN <<>>
  ELSE ToLowerCase(Trim(value.s))

normalizeIngredientOld(ingredient) ==
  LET name == ToLowerCase(Trim(ingredient.ingredient.s))
      size == IF ingredient.servingSize.k = "null" THEN 0 ELSE ingredient.servingSize.n
      unit == UnitText(ingredient.unit)
  IN  name \o << "|" >> \o NumStr(size) \o << "|" >> \o unit

buildIngredientsKeyOld(recipe) ==
  LET all == recipe.ingredients.yourIngredients \o recipe.ingredients.extraIngredients
      parts == [i \in 1..Len(all) |-> normalizeIngredientOld(all[i])]
  IN  Join(SortStrings(parts), << ";" >>)

buildRecipeSignatureOld(recipe) ==
  LET title == safeLower(recipe.title)
      cuisine == safeLower(recipe.preferences.cuisine)
      time == safeLower(recipe.preferences.cookingTime)
      diet == safeLower(recipe.preferences.dietPreferences)
      cooks == NumStr(IF recipe.cooksAmount.k = "null" THEN 0 ELSE recipe.cooksAmount.n)
      ingredientsKey == buildIngredientsKeyOld(recipe)
  IN  Join(<< title, cuisine, time, diet, cooks, ingredientsKey >>, << "|", "|" >>)

buildRecipePayloadOld(recipe, signature, likes, options, createdAt) ==
  [ title |-> recipe.title,
    cooksAmount |-> recipe.cooksAmount,
    preferences |-> [ cuisine |-> recipe.preferences.cuisine.s,
                      cookingTime |-> recipe.preferences.cookingTime.s,
                      dietPreferences |-> recipe.preferences.dietPreferences.s ],
    ingredients |-> recipe.ingredients,
    recipeSignature |-> signature,
    likes |-> likes,
    isSeedRecipe |-> IF options.k = "null" \/ options.isSeed.k = "null"
                       THEN FALSE ELSE options.isSeed.b,
    createdAt |-> createdAt ]

\* A recipe the earlier service stored: its cuisine is not one of today's
\* options.
OldRecipe ==
  [ id |-> Null, recipeSignature |-> Null, likes |-> Null,
    title |-> Str(<< "C", "u", "r", "r", "y" >>),
    preferences |-> [ cuisine |-> Str(<< "F", "r", "e", "n", "c", "h" >>),
                      cookingTime |-> Str(Quick),
                      dietPreferences |-> Str(DietOptions[3]) ],
    cooksAmount |-> Num(4),
    ingredients |-> [ yourIngredients |-> << Rice >>, extraIngredients |-> << >> ] ]

\* The collection the view works on: document 1 written by today's
\* ensureRecipeInCookbook for recipe 1, document 2 written by the earlier
\* service for OldRecipe.
CurrentDoc ==
  [id |-> 1] @@ buildRecipePayload(InitialRecipes[1], buildRecipeSignature(InitialRecipes[1]),
                                   0, Null, 0)

OldDoc ==
  [id |-> 2] @@ buildRecipePayloadOld(OldRecipe, buildRecipeSignatureOld(OldRecipe),
                                      0, Null, 1)

\* The cookbook has been loaded (loadCookbook has canonicalised the
\* documents into StateService.allRecipes); generatedRecipes is empty, no
\* detail view is open and the favorites map is empty.
InitView ==
  /\ recipes = << >>
  /\ docs = << CurrentDoc, OldDoc >>
  /\ nextId = 3
  /\ allRecipes = canonicalizeOnly(docs)
  /\ call = [c \in Callers |-> NoCall]
  /\ last = NoCall
  /\ started = 0
  /\ ledger = << [initial |-> 0, delta |-> 0], [initial |-> 0, delta |-> 0] >>
  /\ view = NoView
  /\ toast = NoToast

\* RecipeDetailComponent.initRecipeById(id) for the id of a recipe of the
\* loaded cookbook, through afterRecipeLoaded and initFavoriteState up to
\* the await of syncLikesFromBackend: the state's object is selected, its
\* signature read (or computed and cached), isFavorite read from the
\* favorites map, and ensureRecipeInCookbook begun.
InitRecipeById(c) ==
  \E i \in DOMAIN allRecipes :
    /\ view.selectedRecipe = Null
    /\ CanStart(c, 1)
    /\ LET found == RecipeOfDoc(allRecipes[i])
           signature == getOrCreateSignature(found)
           selected == [found EXCEPT !.recipeSignature = Str(signature)]
           o == Len(recipes) + 1
           rs == Append(recipes, selected)
       IN  /\ recipes' = rs
           /\ view' = [view EXCEPT !.selectedRecipe = selected, !.base = o,
                                   !.isFavorite = loadFavoriteFromStorage(view.favorites,
                                                                          signature)]
           /\ call' = [call EXCEPT ![c] =
                         AwaitLookup([NoCall EXCEPT !.op = "ensure",
                                                    !.origin = "syncLikesFromBackend",
                                                    !.batch = << o >>, !.k = 1,
                                                    !.before = docs], rs, o)]
    /\ started' = started + 1
    /\ UNCHANGED << docs, nextId, allRecipes, last, ledger, toast >>

\* RecipeDetailComponent.onToggleFavorite up to the await: nextState is the
\* negation of isFavorite as it is now, and updateLikesForRecipe is begun on
\* the object selectedRecipe is now.
OnToggleFavorite(c) ==
  /\ view.selectedRecipe # Null
  /\ view.selectedRecipe.recipeSignature \notin { Null, Str(<< >>) }
  /\ CanStart(c, 1)
  /\ LET nextState == ~view.isFavorite
         o == IF view.base = 0 THEN Len(recipes) + 1 ELSE view.base
         rs == IF view.base = 0 THEN Append(recipes, view.selectedRecipe) ELSE recipes
     IN  /\ recipes' = rs
         /\ view' = [view EXCEPT !.base = o]
         /\ call' = [call EXCEPT ![c] =
                       AwaitLookup([NoCall EXCEPT !.op = "update",
                                                  !.origin = "onToggleFavorite",
                                                  !.batch = << o >>, !.k = 1,
                                                  !.isFavorite = nextState,
                                                  !.before = docs], rs, o)]
  /\ started' = started + 1
  /\ UNCHANGED << docs, nextId, allRecipes, last, ledger, toast >>

\* One detail view: it is opened, the user toggles the favorite (again
\* before an earlier toggle has returned, too), and the store answers. Every
\* lookup finds the document the recipe was loaded from, so nothing is
\* created.
NextView ==
  \E c \in Callers :
    \/ InitRecipeById(c)
    \/ OnToggleFavorite(c)
    \/ FindBySignature(c)
    \/ UpdateDoc(c)
    \/ StoreFails(c)

SpecView == InitView /\ [][NextView]_vars

\* ------------------------------------------------------------ ToastService
\* ToastConfig values handed to show: durationMs left out, zero, positive
\* and negative (title and message do not influence the service).
DurationInputs == { Null, Num(0), Num(1500), Num(0 - 1) }

\* ToastService.resolveDuration: config.durationMs ?? 4000
resolveDuration(config) ==
  IF config.durationMs = Null THEN 4000 ELSE config.durationMs.n

\* Mutant: the pending timeout is left alone.
clearHideTimeoutForgets(t) == t

\* ToastService.clearHideTimeout
clearHideTimeout(t) ==
  IF t.hideTimeoutId = Null
    THEN t
    ELSE [t EXCEPT !.timers = { x \in @ : Id(x.id) # t.hideTimeoutId },
                   !.hideTimeoutId = Null]

\* ToastService.emitToast
emitToast(t, config) == [t EXCEPT !.toastSubject = config]

\* ToastService.scheduleAutoHide: setTimeout returns a fresh id; the timer
\* is tagged with the toast it was scheduled for.
scheduleAutoHide(t, durationMs) ==
  [t EXCEPT !.hideTimeoutId = Id(t.shown),
            !.timers = @ \cup { [id |-> t.shown, durationMs |-> durationMs] }]

\* ToastService.show(config); the toast is numbered n = shown.
Show ==
  \E durationMs \in DurationInputs :
    /\ toast.shown < MaxToasts
    /\ LET config == [n |-> toast.shown + 1, durationMs |-> durationMs]
           cleared == clearHideTimeout(toast)
           emitted == emitToast([cleared EXCEPT !.shown = @ + 1], config)
           duration == resolveDuration(config)
       IN  toast' = IF duration > 0 THEN scheduleAutoHide(emitted, duration)
                    ELSE emitted
    /\ UNCHANGED << recipes, docs, nextId, allRecipes, call, last, started, ledger, view >>

\* ToastService.hide()
Hide ==
  /\ toast' = emitToast(clearHideTimeout(toast), Null)
  /\ UNCHANGED << recipes, docs, nextId, allRecipes, call, last, started, ledger, view >>

\* A pending timeout's duration has elapsed and the event loop runs its
\* callback: emitToast(null); hideTimeoutId = null.
TimerFires ==
  \E x \in toast.timers :
    /\ toast' = [emitToast(toast, Null)
                   EXCEPT !.hideTimeoutId = Null,
                          !.timers = @ \ { x },
                          !.fired = [timer |-> x.id, found |-> toast.toastSubject]]
    /\ UNCHANGED << recipes, docs, nextId, allRecipes, call, last, started, ledger, view >>

NextToast == Show \/ Hide \/ TimerFires

SpecToast == Init /\ [][NextToast]_vars

\* The event loop runs the callback of every timeout that stays pending.
SpecToastFair == SpecToast /\ WF_vars(TimerFires)

\* ------------------------------------------------------------------- claims
Range(seq) == { seq[i] : i \in DOMAIN seq }

Signatures(ds) == { d.recipeSignature : d \in Range(ds) }

DocsWith(ds, signature) == { d \in Range(ds) : d.recipeSignature = signature }

Duplicates == \E i, j \in DOMAIN docs :
                i # j /\ docs[i].recipeSignature = docs[j].recipeSignature

Returned(op) == last.op = op /\ last.pc = "done"

\* The recipe object of the last call (ensure, update).
LastRecipe == recipes[last.batch[1]]

\* C1: when no two calls overlap, the store holds at most one record per
\* signature, whatever calls are made.
C1_OneRecordPerSignature == ~Duplicates

\* C1 witness: a call has found the record of an earlier call and reused it,
\* and the store holds records of two signatures.
C1_Witness ==
  /\ Len(docs) = 2
  /\ last.pc = "done" /\ last.lookups = 1 /\ last.creates = 0
  /\ last.existing.k = "doc"

\* The create request of caller c is answered in this step.
Creates(c) ==
  /\ call[c].pc = "create"
  /\ call'[c] # call[c]
  /\ ~(call'[c].pc = "idle" /\ last'.pc = "failed")

\* C2: a create that follows a 'not found' lookup is unconditional: it adds a
\* record with the call's signature also when another call has created a
\* record of that signature since the lookup.
C2_CreateIsUnguarded ==
  [][\A c \in Callers :
       Creates(c) =>
         /\ Len(docs') = Len(docs) + 1
         /\ Cardinality(DocsWith(docs', call[c].signature))
              = Cardinality(DocsWith(docs, call[c].signature)) + 1]_vars

\* C2 witness: two records share one signature, both created by
\* ensureRecipeInCookbook calls (only those create seed records).
C2_Witness ==
  \E i, j \in DOMAIN docs :
    /\ i # j
    /\ docs[i].recipeSignature = docs[j].recipeSignature
    /\ docs[i].isSeedRecipe /\ docs[j].isSeedRecipe

\* C3: with no overlapping calls, ensureRecipeInCookbook returns the
\* signature computed from the recipe's content and the id of the one record
\* with that signature; when such a record existed before the call (the
\* second of two calls with content-equal recipes), the call creates nothing and
\* leaves the store as it was.
C3_IdempotentUpsert ==
  Returned("ensure") =>
    LET r == last.result.v
        hit == findBySignature(last.before, last.signature)
    IN  /\ r.recipeSignature = Str(buildRecipeSignature(LastRecipe))
        /\ last.signature = buildRecipeSignature(LastRecipe)
        /\ r.id.k = "id"
        /\ \E d \in Range(last.after) : d.id = r.id.v /\ d.recipeSignature = last.signature
        /\ hit.k = "doc" =>
             /\ r.id = Id(hit.v.id)
             /\ last.creates = 0
             /\ last.after = last.before
        /\ hit.k = "null" =>
             /\ last.creates = 1
             /\ r.id.v \notin { d.id : d \in Range(last.before) }

\* C3 witness: a second ensureRecipeInCookbook call, with a recipe that is
\* content-equal to the stored one but written differently, has returned.
C3_Witness ==
  /\ Returned("ensure")
  /\ \E d \in Range(last.before) :
       /\ d.recipeSignature = last.signature
       /\ d.isSeedRecipe
       /\ d.title # LastRecipe.title
       /\ last.result.v.id = Id(d.id)

\* C4: with no overlapping calls, the results of syncGeneratedRecipes carry
\* equal ids exactly when their signatures are equal, and the call creates one
\* record per distinct signature of the batch that was not in the store.
C4_SyncIds ==
  Returned("sync") =>
    LET out == last.result.v
        fresh == { out[i].recipeSignature.s : i \in DOMAIN out } \ Signatures(last.before)
    IN  /\ Len(out) = Len(last.batch)
        /\ \A i, j \in DOMAIN out :
             (out[i].recipeSignature = out[j].recipeSignature) <=> (out[i].id = out[j].id)
        /\ \A i \in DOMAIN out :
             /\ out[i].id.k = "id"
             /\ out[i].recipeSignature = Str(buildRecipeSignature(recipes[last.batch[i]]))
        /\ last.creates = Cardinality(fresh)

\* C4 witness: a batch of three whose items 1 and 3 are content-duplicates
\* (two recipe objects) and whose item 2 differs has been synced.
C4_Witness ==
  /\ Returned("sync")
  /\ last.batch = << 1, 3, 2 >>
  /\ last.result.v[1].id = last.result.v[3].id
  /\ last.result.v[1].id # last.result.v[2].id

\* The content fields of a document: all but likes.
Content(d) == [d EXCEPT !.likes = 0]

\* C5: every step keeps every record and its content fields; only likes
\* may change.
C5_ContentImmutable ==
  [][\A i \in DOMAIN docs :
       \E j \in DOMAIN docs' : Content(docs'[j]) = Content(docs[i])]_vars

\* C5 witness: a record's likes have changed and a later duplicate
\* submission with differently written content has been resolved against it.
C5_Witness ==
  /\ Returned("ensure")
  /\ last.creates = 0
  /\ \E d \in Range(docs) :
       /\ d.recipeSignature = last.signature
       /\ d.title # LastRecipe.title
       /\ ledger[d.id].delta # 0

\* C6: every likes value read back to a caller is >= 0: the likes of the
\* recipe ensureRecipeInCookbook returns, of the document getRecipeById
\* returns and of every recipe loadCookbook emits.
C6_LikesReadBackNonNegative ==
  /\ Returned("ensure") => last.result.v.likes.n >= 0
  /\ Returned("getById") /\ last.result.k = "doc" => last.result.v.likes >= 0
  /\ Returned("loadCookbook") =>
       \A i \in DOMAIN last.result.v : last.result.v[i].likes >= 0

\* C7: every value updateLikesForRecipe returns is >= 0, and an unfavorite of
\* a record read with likes <= 0 returns 0.
C7_ReturnedLikesNonNegative ==
  Returned("update") =>
    /\ last.result.n >= 0
    /\ (last.existing.k = "doc" /\ ~last.isFavorite /\ last.existing.v.likes <= 0)
         => last.result.n = 0

\* C7 witness: an unfavorite of a record that earlier unfavorites have left
\* with no likes has returned 0.
C7_Witness ==
  /\ Returned("update")
  /\ ~last.isFavorite
  /\ last.existing.k = "doc"
  /\ ledger[last.existing.v.id].initial = 0
  /\ last.existing.v.likes < 0
  /\ last.result.n = 0

\* C8: under every interleaving, the stored likes of every record are its
\* likes at creation plus the sum of the deltas of the increments applied to
\* it: no increment is lost.
C8_NoLostIncrement ==
  \A d \in Range(docs) : d.likes = ledger[d.id].initial + ledger[d.id].delta

\* C8 witness: an updateLikesForRecipe call has completed whose increment
\* landed on a likes value another call had changed since this call read it.
C8_Witness ==
  /\ Returned("update")
  /\ last.existing.k = "doc"
  /\ \E d \in Range(last.after) :
       /\ d.id = last.existing.v.id
       /\ d.likes # last.existing.v.likes + likesDelta(last.isFavorite)
       /\ ledger[d.id].delta = 2

\* updateLikesForRecipe of caller c, having found no record, returns in this
\* step.
ReturnsFromCreate(c) ==
  /\ call[c].op = "update" /\ call[c].pc = "create"
  /\ call'[c].pc = "idle" /\ last'.pc = "done"

\* C9: updateLikesForRecipe(r, isFavorite) that finds no record of r's
\* signature creates exactly one record, with likes 1 if isFavorite and 0
\* otherwise, changes no other record, returns that likes value and sets r.id
\* to the new record's id.
C9_LikeOfUnseenRecipe ==
  [][\A c \in Callers :
       ReturnsFromCreate(c) =>
         LET likes == IF call[c].isFavorite THEN 1 ELSE 0
             new == Range(docs') \ Range(docs)
         IN  /\ Len(docs') = Len(docs) + 1
             /\ Range(docs) \subseteq Range(docs')
             /\ \E d \in new :
                  /\ new = { d }
                  /\ d.likes = likes
                  /\ d.recipeSignature = call[c].signature
                  /\ recipes'[call[c].batch[1]].id = Id(d.id)
             /\ last'.result = [k |-> "likes", n |-> likes]
             /\ last'.lookups = 1 /\ last'.creates = 1
             /\ last'.increments = << >>]_vars

\* C9 witness: an unfavorite of a never-seen recipe has created its record
\* at 0 likes.
C9_Witness ==
  /\ Returned("update")
  /\ ~last.isFavorite
  /\ last.creates = 1
  /\ last.result.n = 0
  /\ \E d \in Range(last.after) : LastRecipe.id = Id(d.id) /\ d.likes = 0

\* The record that updateLikesForRecipe(r, true) created for the recipe of
\* the last call, untouched since: r.id names it, it began at 1 like and no
\* increment has been applied to it before the last call.
FreshlyLiked(d) ==
  /\ d.recipeSignature = last.signature
  /\ LastRecipe.id = Id(d.id)
  /\ ledger[d.id].initial = 1
  /\ d.likes = 1

\* C10: with no overlapping calls, updateLikesForRecipe(r, false) right after
\* the updateLikesForRecipe(r, true) that created r's record returns 0,
\* issues exactly one increment, of -1 and on that record, and creates no
\* record.
C10_UnlikeAfterFirstLike ==
  (Returned("update") /\ ~last.isFavorite) =>
    \A d \in Range(last.before) :
      FreshlyLiked(d) =>
        /\ last.result.n = 0
        /\ last.increments = << [id |-> d.id, delta |-> -1] >>
        /\ last.creates = 0
        /\ Len(last.after) = Len(last.before)

\* C10 witness: such an unfavorite has returned.
C10_Witness ==
  /\ Returned("update") /\ ~last.isFavorite
  /\ \E d \in Range(last.before) : FreshlyLiked(d)

\* The call that completed last is a syncGeneratedRecipes call that a store
\* failure ended.
SyncFailed == last.op = "sync" /\ last.pc = "failed"

\* C11: when the store fails while syncGeneratedRecipes processes item k, the
\* call fails without a result list, every item before k has its record in
\* the store (then and in every later state), and nothing is requested for
\* an item after k: the lookups answered are those of items 1..k-1, plus
\* that of item k when it is the create of item k that failed.
C11_SyncFailure ==
  SyncFailed =>
    LET k == last.k
    IN  /\ last.result = Null
        /\ Len(last.out) = k - 1
        /\ \A i \in 1..(k - 1) :
             \E d \in Range(docs) :
               /\ d.recipeSignature = buildRecipeSignature(recipes[last.batch[i]])
               /\ last.out[i].id = Id(d.id)
        /\ last.lookups = IF last.payload = Null THEN k - 1 ELSE k
        /\ last.creates <= k - 1

\* C11 witness: a batch of three has failed at its second item, after the
\* first item's record was created.
C11_Witness ==
  /\ SyncFailed
  /\ Len(last.batch) = 3
  /\ last.k = 2
  /\ last.creates = 1

\* A recipe object without the fields ensureRecipeInCookbook attaches.
Incoming(r) == [r EXCEPT !.id = Null, !.recipeSignature = Null, !.likes = Null]

\* C12: syncGeneratedRecipes works through the list one item at a time: while
\* item k is in progress exactly k-1 results are collected and the lookups
\* answered are those of the items before k (and of k once its create is
\* pending); on success there is one lookup and one result per item, the
\* i-th result being the i-th input with id, signature and likes attached.
C12_SyncSequential ==
  /\ \A c \in Callers :
       call[c].op = "sync" =>
         /\ call[c].k \in 1..Len(call[c].batch)
         /\ Len(call[c].out) = call[c].k - 1
         /\ call[c].lookups = IF call[c].pc = "lookup" THEN call[c].k - 1 ELSE call[c].k
         /\ call[c].creates <= call[c].k - 1
  /\ Returned("sync") =>
       LET out == last.result.v
       IN  /\ Len(out) = Len(last.batch)
           /\ last.lookups = Len(last.batch)
           /\ \A i \in DOMAIN out :
                /\ Incoming(out[i]) = Incoming(recipes[last.batch[i]])
                /\ out[i].recipeSignature
                     = Str(buildRecipeSignature(recipes[last.batch[i]]))

\* C12 witness: a batch of three differently written recipes, two of them
\* content-duplicates, has been synced and the results are in input order.
C12_Witness ==
  /\ Returned("sync")
  /\ last.batch = << 2, 3, 1 >>
  /\ last.result.v[1].title = recipes[2].title
  /\ last.result.v[3].title = recipes[1].title
  /\ last.result.v[1].id = last.result.v[3].id

\* The recipe object o has had its signature computed.
Signed(o) == recipes[o].recipeSignature # Null

\* All of a recipe object but id, likes, createdAt, isSeedRecipe and the
\* signature itself.
ContentOf(r) ==
  [ title |-> r.title, preferences |-> r.preferences, cooksAmount |-> r.cooksAmount,
    ingredients |-> r.ingredients ]

\* C13: two recipes that differ only in id, likes, createdAt or isSeedRecipe
\* get one signature, and so do any two recipes with equal canonical
\* preferences, title, cooksAmount and ingredients.
C13_SignatureIgnoresStoredFields ==
  \A a, b \in DOMAIN recipes :
    (Signed(a) /\ Signed(b)) =>
      /\ ContentOf(recipes[a]) = ContentOf(recipes[b])
           => recipes[a].recipeSignature = recipes[b].recipeSignature
      /\ ( /\ canonicalPreferences(recipes[a].preferences)
                = canonicalPreferences(recipes[b].preferences)
           /\ recipes[a].title = recipes[b].title
           /\ recipes[a].cooksAmount = recipes[b].cooksAmount
           /\ recipes[a].ingredients = recipes[b].ingredients )
           => recipes[a].recipeSignature = recipes[b].recipeSignature

\* C13 witness: a generated recipe and the same recipe as read back from the
\* store (with id, likes, createdAt, isSeedRecipe) have both been signed.
C13_Witness ==
  /\ Signed(1) /\ Signed(2)
  /\ ContentOf(recipes[1]) = ContentOf(recipes[2])
  /\ recipes[1].id = Null /\ recipes[2].id = Id(1)
  /\ recipes[1].likes = Null /\ recipes[2].likes = Num(5)
  /\ "createdAt" \notin DOMAIN recipes[1] /\ recipes[2].isSeedRecipe
  /\ recipes[1].recipeSignature = recipes[2].recipeSignature

\* The ingredients of a recipe, both lists together, as a multiset.
IngredientBag(r) ==
  LET all == r.ingredients.yourIngredients \o r.ingredients.extraIngredients
  IN  [ x \in Range(all) |-> Cardinality({ i \in DOMAIN all : all[i] = x }) ]

\* C14: two recipes that agree in everything but the order of their
\* ingredients and their split over yourIngredients and extraIngredients
\* get one signature.
C14_SignatureIgnoresIngredientOrder ==
  \A a, b \in DOMAIN recipes :
    ( /\ Signed(a) /\ Signed(b)
      /\ recipes[a].title = recipes[b].title
      /\ recipes[a].preferences = recipes[b].preferences
      /\ recipes[a].cooksAmount = recipes[b].cooksAmount
      /\ IngredientBag(recipes[a]) = IngredientBag(recipes[b]) )
      => recipes[a].recipeSignature = recipes[b].recipeSignature

\* C14 witness: [tomato] + [pasta] and [pasta, tomato] + [] have been signed.
C14_Witness ==
  /\ Signed(1) /\ Signed(2)
  /\ recipes[1].ingredients
       = [ yourIngredients |-> << Tomato >>, extraIngredients |-> << Pasta >> ]
  /\ recipes[2].ingredients
       = [ yourIngredients |-> << Pasta, Tomato >>, extraIngredients |-> << >> ]
  /\ recipes[1].title = recipes[2].title
  /\ recipes[1].preferences = recipes[2].preferences
  /\ recipes[1].cooksAmount = recipes[2].cooksAmount
  /\ recipes[1].recipeSignature = recipes[2].recipeSignature

\* The string s without its leading and trailing blanks, by position.
Unpadded(s) ==
  LET inked == { i \in DOMAIN s : s[i] # " " }
  IN  IF inked = { } THEN << >>
      ELSE SubSeq(s, CHOOSE i \in inked : \A j \in inked : i <= j,
                     CHOOSE i \in inked : \A j \in inked : i >= j)

\* Two characters that are one letter in either case.
SameLetter(x, y) == x = y \/ LowerChar(x) = y \/ x = LowerChar(y)

\* Two values that are equal, or strings that differ only in letter case and
\* in leading and trailing whitespace.
SameUpToCaseAndPadding(v, w) ==
  \/ v = w
  \/ /\ v.k = "str" /\ w.k = "str"
     /\ LET s == Unpadded(v.s)
            t == Unpadded(w.s)
        IN  Len(s) = Len(t) /\ \A i \in DOMAIN s : SameLetter(s[i], t[i])

\* C15: two recipes whose title, cuisine, cookingTime and dietPreferences
\* differ only in letter case and in leading and trailing whitespace, and
\* that agree in everything else, get one signature.
C15_SignatureIgnoresCaseAndPadding ==
  \A a, b \in DOMAIN recipes :
    ( /\ Signed(a) /\ Signed(b)
      /\ SameUpToCaseAndPadding(recipes[a].title, recipes[b].title)
      /\ SameUpToCaseAndPadding(recipes[a].preferences.cuisine,
                                recipes[b].preferences.cuisine)
      /\ SameUpToCaseAndPadding(recipes[a].preferences.cookingTime,
                                recipes[b].preferences.cookingTime)
      /\ SameUpToCaseAndPadding(recipes[a].preferences.dietPreferences,
                                recipes[b].preferences.dietPreferences)
      /\ recipes[a].cooksAmount = recipes[b].cooksAmount
      /\ recipes[a].ingredients = recipes[b].ingredients )
      => recipes[a].recipeSignature = recipes[b].recipeSignature

\* C15 witness: 'Pasta' / italian / quick / vegan and ' PASTA ' / 'Italian' /
\* 'QUICK' / 'vegan ' have been signed.
C15_Witness ==
  /\ Signed(1) /\ Signed(2)
  /\ recipes[1].title = InitialRecipes[1].title
  /\ recipes[2].title = InitialRecipes[2].title
  /\ recipes[1].preferences = InitialRecipes[1].preferences
  /\ recipes[2].preferences = InitialRecipes[2].preferences
  /\ recipes[1].cooksAmount = recipes[2].cooksAmount
  /\ recipes[1].ingredients = recipes[2].ingredients
  /\ recipes[1].recipeSignature = recipes[2].recipeSignature

\* A preference value lower-cased and trimmed: a string by position, null
\* and arrays as lower takes them.
Normalized(v) == IF v.k = "str" THEN ToLowerCase(Unpadded(v.s)) ELSE lower(v)

\* What an axis must come out as: the normalized value when it is one of
\* the configured options, the preferred default otherwise.
KeptOrDefault(v, options, preferred) ==
  IF Normalized(v) \in Range(options) THEN Normalized(v) ELSE preferred

\* C16: canonicalPreferences returns, on each axis, the lower-cased and
\* trimmed input when that is one of the axis's allowed values and the
\* axis's default otherwise; the preferred defaults 'fusion', 'quick' and
\* 'no preferences' are allowed values and so are the defaults.
C16_CanonicalPreferences ==
  Returned("canonicalPreferences") =>
    LET input == LastRecipe.preferences
        prefs == last.result.v
    IN  /\ Fusion \in Range(CuisineOptions)
        /\ Quick \in Range(TimeOptions)
        /\ NoPreferences \in Range(DietOptions)
        /\ prefs.cuisine = KeptOrDefault(input.cuisine, CuisineOptions, Fusion)
        /\ prefs.cookingTime = KeptOrDefault(input.cookingTime, TimeOptions, Quick)
        /\ prefs.dietPreferences
             = KeptOrDefault(input.dietPreferences, DietOptions, NoPreferences)

\* C16 witness: cuisine 'FRENCH' has come out as 'fusion', next to a kept
\* ' Medium ' -> 'medium'.
C16_Witness ==
  /\ Returned("canonicalPreferences")
  /\ LastRecipe.preferences.cuisine = Str(<< "F", "R", "E", "N", "C", "H" >>)
  /\ last.result.v.cuisine = Fusion
  /\ LastRecipe.preferences.cookingTime # Str(TimeOptions[2])
  /\ last.result.v.cookingTime = TimeOptions[2]

\* C17: the likes of every stored record are >= 0 in every reachable state.
C17_StoredLikesNonNegative == \A d \in Range(docs) : d.likes >= 0

\* The ids of the documents of a collection.
Ids(ds) == { d.id : d \in Range(ds) }

\* C18: no step removes a record or changes a record's id or signature: the
\* stored ids only grow, each id names one document, and the document of an
\* id keeps its signature.
C18_RecordsPersist ==
  [][/\ Ids(docs) \subseteq Ids(docs')
     /\ Cardinality(Ids(docs')) = Len(docs')
     /\ \A d \in Range(docs) :
          \E e \in Range(docs') :
            e.id = d.id /\ e.recipeSignature = d.recipeSignature]_vars

\* C18 witness: a record whose likes have been changed is still stored, with
\* a record created later sorting before it.
C18_Witness ==
  /\ Len(docs) = 2
  /\ docs[1].id = 2 /\ docs[2].id = 1
  /\ ledger[1].delta # 0
  /\ docs[1].recipeSignature # docs[2].recipeSignature

\* The lookup of caller c is answered in this step.
LookupAnswered(c) ==
  /\ call[c].pc = "lookup"
  /\ call'[c] # call[c]
  /\ ~(call'[c].pc = "idle" /\ last'.pc = "failed")

\* The call of caller c as it is after the step in which c has acted.
After(c) == IF call'[c].pc = "idle" THEN last' ELSE call'[c]

\* What ensureRecipeInCookbook resolves to in this step for the item of
\* caller c that is in progress.
ResultOfItem(c) == After(c).out[Len(call[c].out) + 1]

\* ensureRecipeInCookbook is in progress for caller c, called directly or by
\* syncGeneratedRecipes.
Ensuring(c) == call[c].op \in { "ensure", "sync" }

\* C19: when the lookup of ensureRecipeInCookbook is answered and a record
\* with the signature exists, the call resolves in that step without any
\* write (no create, the store unchanged) to the incoming recipe with the id
\* of such a record, the signature, and that record's likes, 0 when it has
\* none.
C19_ReuseWritesNothing ==
  [][\A c \in Callers :
       ( /\ Ensuring(c) /\ LookupAnswered(c)
         /\ DocsWith(docs, call[c].signature) # { } ) =>
         /\ After(c).pc # "create"
         /\ docs' = docs
         /\ nextId' = nextId
         /\ After(c).creates = call[c].creates
         /\ \E d \in DocsWith(docs, call[c].signature) :
              /\ ResultOfItem(c).id = Id(d.id)
              /\ ResultOfItem(c).likes
                   = Num(IF "likes" \in DOMAIN d THEN d.likes ELSE 0)
         /\ ResultOfItem(c).recipeSignature = Str(call[c].signature)
         /\ Incoming(ResultOfItem(c))
              = Incoming(recipes[call[c].batch[call[c].k]])]_vars

\* C19 witness: ensureRecipeInCookbook has found the record that has no
\* likes field and has returned its id with likes 0, the store untouched.
C19_Witness ==
  /\ Returned("ensure")
  /\ last.before = << LegacyDoc >>
  /\ last.after = last.before
  /\ last.creates = 0
  /\ last.result.v.id = Id(LegacyDoc.id)
  /\ last.result.v.likes = Num(0)
  /\ last.result.v.title # LegacyDoc.title

\* C20: when the lookup of ensureRecipeInCookbook finds no record, the call
\* goes on to create; the create adds exactly one record, with the
\* signature, likes = recipe.likes (0 when absent) and isSeedRecipe =
\* options.isSeed (false when absent, and always false under
\* syncGeneratedRecipes), and the call resolves to the recipe with the new
\* record's id, the signature and the same likes.
C20_CreateOnMiss ==
  [][\A c \in Callers :
       Ensuring(c) =>
         /\ ( LookupAnswered(c) /\ DocsWith(docs, call[c].signature) = { } )
              => ( After(c).pc = "create" /\ docs' = docs )
         /\ Creates(c) =>
              LET r == recipes[call[c].batch[call[c].k]]
                  likes == IF r.likes = Null THEN 0 ELSE r.likes.n
                  isSeed == /\ call[c].op = "ensure"
                            /\ call[c].options # Null
                            /\ call[c].options.isSeed = Bool(TRUE)
                  new == Range(docs') \ Range(docs)
              IN  /\ Len(docs') = Len(docs) + 1
                  /\ Range(docs) \subseteq Range(docs')
                  /\ After(c).creates = call[c].creates + 1
                  /\ \E d \in new :
                       /\ new = { d }
                       /\ d.recipeSignature = call[c].signature
                       /\ d.likes = likes
                       /\ d.isSeedRecipe = isSeed
                       /\ d.title = r.title
                       /\ ResultOfItem(c).id = Id(d.id)
                  /\ ResultOfItem(c).recipeSignature = Str(call[c].signature)
                  /\ ResultOfItem(c).likes = Num(likes)
                  /\ Incoming(ResultOfItem(c)) = Incoming(r)]_vars

\* C20 witness: ensureRecipeInCookbook(r, { isSeed: true }) with r.likes = 2
\* has created r's record as a seed record with 2 likes, next to a record
\* that syncGeneratedRecipes created with isSeedRecipe = false.
C20_Witness ==
  /\ Returned("ensure")
  /\ last.creates = 1
  /\ last.result.v.likes = Num(2)
  /\ \E d, e \in Range(last.after) :
       /\ last.result.v.id = Id(d.id)
       /\ d.isSeedRecipe /\ d.likes = 2
       /\ d.recipeSignature = last.signature
       /\ ~e.isSeedRecipe /\ e.likes = 0

\* The increment of caller c is answered in this step.
IncrementAnswered(c) ==
  /\ call[c].pc = "increment"
  /\ call'[c] # call[c]
  /\ ~(call'[c].pc = "idle" /\ last'.pc = "failed")

\* C21: when the lookup of updateLikesForRecipe is answered and a record
\* with the signature exists, the call goes on to an increment on one such
\* record and creates nothing; the increment adds +1 (isFavorite) or -1 to
\* the stored likes of that record and touches no other record, it is the
\* only write of the call, and the call returns max(likes read + delta, 0),
\* a missing likes being read as 0.
C21_LikeOfStoredRecipe ==
  [][\A c \in Callers :
       call[c].op = "update" =>
         /\ ( LookupAnswered(c) /\ DocsWith(docs, call[c].signature) # { } ) =>
              /\ After(c).pc = "increment"
              /\ After(c).existing.v \in DocsWith(docs, call[c].signature)
              /\ docs' = docs
         /\ IncrementAnswered(c) =>
              LET e == call[c].existing.v
                  delta == IF call[c].isFavorite THEN 1 ELSE -1
                  read == IF "likes" \in DOMAIN e THEN e.likes ELSE 0
              IN  /\ last'.pc = "done"
                  /\ last'.result
                       = [k |-> "likes", n |-> IF read + delta >= 0 THEN read + delta ELSE 0]
                  /\ last'.creates = 0
                  /\ last'.increments = << [id |-> e.id, delta |-> delta] >>
                  /\ nextId' = nextId
                  /\ Len(docs') = Len(docs)
                  /\ \A i \in DOMAIN docs :
                       IF docs[i].id = e.id
                         THEN docs'[i].likes
                                = (IF "likes" \in DOMAIN docs[i] THEN docs[i].likes ELSE 0)
                                    + delta
                         ELSE docs'[i] = docs[i]]_vars

\* C21 witness: a like of the record that has no likes field has returned 1
\* and the record now has likes 1.
C21_Witness ==
  /\ Returned("update")
  /\ last.isFavorite
  /\ last.existing.k = "doc" /\ last.existing.v = LegacyDoc
  /\ last.result.n = 1
  /\ last.after[1].likes = 1
  /\ Len(last.after) = 1

\* Caller c's pending lookup, create or increment goes unanswered in this
\* step: the call moves on without a store answer being counted.
Unanswered(c) ==
  /\ call[c].pc \in { "lookup", "create", "increment" }
  /\ call'[c] # call[c]
  /\ After(c).lookups = call[c].lookups
  /\ After(c).creates = call[c].creates
  /\ After(c).increments = call[c].increments

\* C22: when a store request of ensureRecipeInCookbook or
\* updateLikesForRecipe fails, the call ends in that step as a failed call
\* without a value; the step changes nothing in the store, no request is
\* pending for the caller afterwards and no new call is begun; a call whose
\* lookup failed has issued no create and no increment.
C22_FailurePropagates ==
  [][\A c \in Callers :
       ( call[c].op \in { "ensure", "update" } /\ Unanswered(c) ) =>
         /\ call'[c] = NoCall
         /\ last'.pc = "failed"
         /\ last'.result = Null
         /\ docs' = docs
         /\ nextId' = nextId
         /\ ledger' = ledger
         /\ started' = started
         /\ call[c].pc = "lookup" =>
              /\ last'.lookups = 0
              /\ last'.creates = 0
              /\ last'.increments = << >>]_vars

\* C22 witness: the increment of an unfavorite has failed after its lookup
\* found the record; the caller has no value and the record its likes.
C22_Witness ==
  /\ last.op = "update" /\ last.pc = "failed"
  /\ ~last.isFavorite
  /\ last.existing.k = "doc"
  /\ last.lookups = 1
  /\ last.result = Null
  /\ last.after = << last.existing.v >>

\* The stored likes of the document with the given id in collection ds.
StoredLikes(ds, id) ==
  LET d == CHOOSE d \in Range(ds) : d.id = id
  IN  IF "likes" \in DOMAIN d THEN d.likes ELSE 0

\* C23: the value updateLikesForRecipe returns can differ from the stored
\* likes right after its own increment, and it does so only when another
\* call's increment has landed between this call's lookup and its increment,
\* or when the returned value was clamped at 0.
C23_AdvisoryDivergence ==
  [][\A c \in Callers :
       ( call[c].op = "update" /\ IncrementAnswered(c) ) =>
         LET e == call[c].existing.v
             read == IF "likes" \in DOMAIN e THEN e.likes ELSE 0
             delta == IF call[c].isFavorite THEN 1 ELSE -1
         IN  last'.result.n # StoredLikes(docs', e.id) =>
               \/ StoredLikes(docs, e.id) # read
               \/ read + delta < 0]_vars

\* C23 witness: two overlapping likes of one stored record, no clamping
\* involved: the call that completed last returned the likes it read plus
\* one while the record holds two more than it read.
C23_Witness ==
  /\ Returned("update")
  /\ last.isFavorite
  /\ last.existing.k = "doc"
  /\ last.existing.v.likes >= 0
  /\ last.result.n = last.existing.v.likes + 1
  /\ StoredLikes(last.after, last.existing.v.id) = last.existing.v.likes + 2

\* C26: the create of updateLikesForRecipe is as unguarded as that of
\* ensureRecipeInCookbook: when it is answered it adds one more record of the
\* call's signature, with likes 1 (isFavorite) or 0, whether or not a record
\* of that signature has been created since the call's lookup, and it adds
\* nothing to the likes of a record that exists.
C26_LikeCreateIsUnguarded ==
  [][\A c \in Callers :
       ( call[c].op = "update" /\ Creates(c) ) =>
         /\ Len(docs') = Len(docs) + 1
         /\ Range(docs) \subseteq Range(docs')
         /\ Cardinality(DocsWith(docs', call[c].signature))
              = Cardinality(DocsWith(docs, call[c].signature)) + 1
         /\ \E d \in Range(docs') \ Range(docs) :
              /\ d.recipeSignature = call[c].signature
              /\ d.likes = IF call[c].isFavorite THEN 1 ELSE 0]_vars

\* C26 witness: two overlapping updateLikesForRecipe(r, true) calls have each
\* created a record of r's signature with likes 1; no record holds 2.
C26_Witness ==
  /\ Returned("update")
  /\ last.isFavorite /\ last.creates = 1
  /\ \E i, j \in DOMAIN docs :
       /\ i # j
       /\ docs[i].recipeSignature = last.signature
       /\ docs[j].recipeSignature = last.signature
       /\ docs[i].likes = 1 /\ docs[j].likes = 1
       /\ ledger[docs[i].id] = [initial |-> 1, delta |-> 0]
       /\ ledger[docs[j].id] = [initial |-> 1, delta |-> 0]

\* C27: with no overlapping calls, the value updateLikesForRecipe returns is
\* the likes stored on the record after the call: the record it created, or
\* the record it incremented when that record began the call with likes >= 0.
C27_ReturnedEqualsStored ==
  Returned("update") =>
    IF last.existing.k = "doc"
      THEN StoredLikes(last.before, last.existing.v.id) >= 0
             => last.result.n = StoredLikes(last.after, last.existing.v.id)
      ELSE \A d \in Range(last.after) \ Range(last.before) : last.result.n = d.likes

\* Every axis of a canonical triple is one of the axis's configured options.
Allowed(p) ==
  /\ p.cuisine \in Range(CuisineOptions)
  /\ p.cookingTime \in Range(TimeOptions)
  /\ p.dietPreferences \in Range(DietOptions)

\* C28: canonicalPreferences returns allowed values only and returns its own
\* results unchanged; so the preferences of every stored record are a fixed
\* point, the recipes loadCookbook emits carry the preferences as stored, and
\* the signature recomputed from a stored record's content is its stored
\* recipeSignature.
C28_CanonicalIsStable ==
  /\ \A o \in DOMAIN recipes :
       LET p == canonicalPreferences(recipes[o].preferences)
       IN  Allowed(p) /\ canonicalPreferences(AsInput(p)) = p
  /\ \A d \in Range(docs) :
       /\ Allowed(d.preferences)
       /\ canonicalPreferences(AsInput(d.preferences)) = d.preferences
       /\ buildRecipeSignature(RecipeOfDoc(d)) = d.recipeSignature
  /\ Returned("loadCookbook") =>
       \A i \in DOMAIN last.result.v :
         \E d \in Range(last.after) :
           d.id = last.result.v[i].id /\ d = last.result.v[i]

\* C28 witness: the record created from cuisine 'FRENCH', no cookingTime and
\* diet ['Keto'] is stored as fusion / quick / keto and loadCookbook has
\* emitted it.
C28_Witness ==
  /\ Returned("loadCookbook")
  /\ \E i \in DOMAIN last.result.v :
       /\ last.result.v[i].title = InitialRecipes[3].title
       /\ last.result.v[i].preferences
            = [ cuisine |-> Fusion, cookingTime |-> Quick,
                dietPreferences |-> DietOptions[3] ]

\* Toast n is the one on display.
Showing(n) == toast.toastSubject # Null /\ toast.toastSubject.n = n

\* C25: at most one auto-hide timer is pending, and it is the one of the
\* toast on display (show and hide have cancelled any earlier one); a timer
\* that runs finds the toast it was scheduled for; and a toast shown with a
\* positive duration eventually leaves the display (hidden, or replaced by
\* another show).
C25_OneAutoHideTimer ==
  /\ [](/\ Cardinality(toast.timers) <= 1
        /\ \A x \in toast.timers :
             toast.hideTimeoutId = Id(x.id) /\ Showing(x.id) /\ x.durationMs > 0
        /\ toast.hideTimeoutId # Null => toast.timers # {}
        /\ toast.fired # Null =>
             toast.fired.found # Null /\ toast.fired.found.n = toast.fired.timer)
  /\ \A n \in 1..MaxToasts :
       (Showing(n) /\ (toast.toastSubject.durationMs = Null
                         \/ toast.toastSubject.durationMs.n > 0))
         ~> ~Showing(n)

\* C25 witness: toast 1 was shown with a positive duration and replaced by
\* toast 2 before its timer ran; toast 2's own timer has hidden toast 2.
C25_Witness ==
  /\ toast.shown = 2
  /\ toast.toastSubject = Null
  /\ toast.timers = {}
  /\ toast.fired # Null
  /\ toast.fired.timer = 2
  /\ toast.fired.found = [n |-> 2, durationMs |-> Null]

\* C24: the signature a lookup of ensureRecipeInCookbook or
\* updateLikesForRecipe is issued with is the signature computed from the
\* content the recipe object has at that moment.
C24_LookupUsesFreshSignature ==
  \A c \in Callers :
    call[c].pc = "lookup" /\ call[c].op \in {"ensure", "update"} =>
      call[c].signature = buildRecipeSignature(recipes[call[c].batch[call[c].k]])

\* No toggle of the view is in flight.
TogglesCompleted == \A c \in Callers : call[c].origin # "onToggleFavorite"

RECURSIVE SumOf(_)
SumOf(s) == IF s = << >> THEN 0 ELSE Head(s) + SumOf(Tail(s))

\* C29: once the toggles of the view have completed, the like deltas it has
\* sent add up to 1 when isFavorite is true and to 0 when it is false.
C29_SentMatchesFavorite ==
  view.selectedRecipe # Null /\ TogglesCompleted =>
    SumOf(view.sent) = IF view.isFavorite THEN 1 ELSE 0

\* Caller c's toggle takes a step.
ToggleStep(c) == call[c].origin = "onToggleFavorite" /\ call'[c] # call[c]

\* Caller c's toggle takes its last step and updateLikesForRecipe returns.
ToggleSucceeds(c) == ToggleStep(c) /\ call'[c] = NoCall /\ last'.pc = "done"

\* C30: a step of a toggle that is not the successful return of
\* updateLikesForRecipe (its failure included) leaves isFavorite, the likes
\* on display and the favorites map as they are; the successful return sets
\* isFavorite to the toggled state, the likes to the returned value, and puts
\* the signature's key into the map on a favorite and removes it on an
\* unfavorite; isFavorite and the map of an open view change in no other
\* step.
C30_FailedToggleChangesNothing ==
  [][ LET signature == view.selectedRecipe.recipeSignature.s
      IN  /\ \A c \in Callers :
               ToggleStep(c) =>
                 IF ToggleSucceeds(c)
                   THEN /\ view'.isFavorite = call[c].isFavorite
                        /\ view'.selectedRecipe.likes = Num(last'.result.n)
                        /\ view'.favorites =
                             IF call[c].isFavorite THEN view.favorites \cup { signature }
                             ELSE view.favorites \ { signature }
                   ELSE /\ view'.isFavorite = view.isFavorite
                        /\ view'.selectedRecipe.likes = view.selectedRecipe.likes
                        /\ view'.favorites = view.favorites
          /\ view.selectedRecipe # Null
               /\ (view'.isFavorite # view.isFavorite \/ view'.favorites # view.favorites)
               => \E c \in Callers : ToggleSucceeds(c) ]_vars

\* C30 witness: the favorite succeeded, then the unfavorite failed: the
\* view still shows the favorite, 1 like, and the key is in the map.
C30_Witness ==
  /\ last.origin = "onToggleFavorite"
  /\ last.pc = "failed"
  /\ ~last.isFavorite
  /\ view.isFavorite
  /\ view.selectedRecipe.likes = Num(1)
  /\ view.favorites = { view.selectedRecipe.recipeSignature.s }
  /\ view.sent = << 1 >>

====
